---- MODULE Spec2Model ----
(***************************************************************************)
(* PriceStore (condorgame/prices.py): a per-asset cache of (timestamp,     *)
(* price) pairs kept in two parallel lists, with bulk insert, pruning,     *)
(* resampling and nearest-neighbour lookup.                                *)
(***************************************************************************)
EXTENDS Integers, Sequences, FiniteSets, TLC

VARIABLES data, window_days, last, pre

vars == <<data, window_days, last, pre>>

(* ---------------------------- bounds ----------------------------------- *)
MaxLen == 3          \* stored entries over all assets
MaxBatch == 2        \* entries per add_prices batch
MaxBulkBatch == 1    \* entries per asset in an add_bulk mapping

(* ------------------------- program constants --------------------------- *)
DefaultWindowDays == 30
PruneHorizonDays == 5
SecondsPerDay == 86400

(* ----------------------------- inputs ---------------------------------- *)
Assets == {"X", "Y"}
FeedAsset == "X"
Timestamps == {1000, 1060, 3000000}
Prices == {100, 105}
Resolutions == {60, 120}
DayValues == {0, 1, 5}
Times == {990, 1030, 1040, 1060, 3000010}
WindowDays == {1, DefaultWindowDays}

Entries == Timestamps \X Prices

SeqsUpTo(S, n) == UNION {[1..k -> S] : k \in 0..n}

IsAscending(b) == \A i \in 1..(Len(b) - 1) : b[i][1] <= b[i + 1][1]

Batches == SeqsUpTo(Entries, MaxBatch)
SortedBatches == {b \in Batches : IsAscending(b)}

\* a dict {asset: entries} in iteration order: a sequence of <<asset, entries>>
\* with pairwise different assets
Mappings(B) ==
  {<<>>}
  \cup {<<<<a, b>>>> : a \in Assets, b \in B}
  \cup {<<<<a1, b1>>, <<a2, b2>>>> :
          <<a1, b1, a2, b2>> \in {q \in Assets \X B \X Assets \X B : q[1] # q[3]}}

BulkPrices == {105}
BulkBatches == SeqsUpTo(Timestamps \X BulkPrices, MaxBulkBatch)
SortedBulkBatches == {b \in BulkBatches : IsAscending(b)}
SortedMappings == Mappings(SortedBulkBatches)

\* days: int | None -- <<>> is None, <<n>> is the integer n
NoDays == <<>>
DaysArgs == {NoDays} \cup {<<n>> : n \in DayValues}

(* ------------------------- the store's data ---------------------------- *)
EmptySeries == [ts |-> <<>>, price |-> <<>>]

\* self.data.get(asset) is not None: the asset has a series (get creates none)
Known(dt, asset) == asset \in DOMAIN dt

\* self.data[symbol] of the defaultdict: the series, a fresh one when absent
Series(dt, symbol) == IF symbol \in DOMAIN dt THEN dt[symbol] ELSE EmptySeries

Back(s) == s[Len(s)]

Unzip(entries, k) == [i \in 1..Len(entries) |-> entries[i][k]]

\* bisect_left(a, x): index (0-based insertion point) found by the halving loop
RECURSIVE BisectLoop(_, _, _, _)
BisectLoop(a, x, lo, hi) ==
  IF lo < hi
    THEN LET mid == (lo + hi) \div 2
         IN IF a[mid + 1] < x THEN BisectLoop(a, x, mid + 1, hi)
                              ELSE BisectLoop(a, x, lo, mid)
    ELSE lo

bisect_left(a, x) == BisectLoop(a, x, 0, Len(a))

\* a[i:] of a Python list
SliceFrom(a, i) == SubSeq(a, i + 1, Len(a))

(* ----------------------------- add_prices ------------------------------ *)
\* variant: a batch starting AT the last timestamp also takes the fast path
FastPathAtOrAfter(d, ts_new) == d.ts = <<>> \/ ts_new[1] >= Back(d.ts)

\* Case 1: the fast path appends the whole batch
FastPath(d, ts_new) == d.ts = <<>> \/ ts_new[1] > Back(d.ts)

Extend(d, ts_new, price_new) ==
  [ts |-> d.ts \o ts_new, price |-> d.price \o price_new]

\* variant: the walk skips only equal timestamps and appends older ones
RECURSIVE MergeWalkKeepsOlder(_, _, _, _, _)
MergeWalkKeepsOlder(d, ts_new, price_new, k, last_ts) ==
  IF k > Len(ts_new) THEN d
  ELSE LET t == ts_new[k]
           p == price_new[k]
       IN IF last_ts = <<>> \/ t # last_ts[1]
            THEN MergeWalkKeepsOlder(
                   [ts |-> Append(d.ts, t), price |-> Append(d.price, p)],
                   ts_new, price_new, k + 1, <<t>>)
            ELSE MergeWalkKeepsOlder([d EXCEPT !.price[Len(d.price)] = p],
                                     ts_new, price_new, k + 1, last_ts)

\* Case 2: the loop over zip(ts_new, price_new); last_ts is <<>> for None
RECURSIVE MergeWalk(_, _, _, _, _)
MergeWalk(d, ts_new, price_new, k, last_ts) ==
  IF k > Len(ts_new) THEN d
  ELSE LET t == ts_new[k]
           p == price_new[k]
       IN IF last_ts = <<>> \/ t > last_ts[1]
            THEN MergeWalk([ts |-> Append(d.ts, t), price |-> Append(d.price, p)],
                           ts_new, price_new, k + 1, <<t>>)
          ELSE IF t = last_ts[1]
            THEN MergeWalk([d EXCEPT !.price[Len(d.price)] = p],
                           ts_new, price_new, k + 1, last_ts)
          ELSE MergeWalk(d, ts_new, price_new, k + 1, last_ts)

Merge(d, ts_new, price_new) ==
  MergeWalk(d, ts_new, price_new, 1, IF d.ts # <<>> THEN <<Back(d.ts)>> ELSE <<>>)

\* variant: the cutoff is taken from the newest timestamp
PruneIndexFromNewest(d) ==
  bisect_left(d.ts, Back(d.ts) - PruneHorizonDays * SecondsPerDay)

\* "Drop old points"
PruneIndex(d) == bisect_left(d.ts, d.ts[1] - PruneHorizonDays * SecondsPerDay)

\* variant: only the timestamp list is sliced
DropOldTsOnly(d) ==
  IF Len(d.ts) > 0
    THEN LET i == PruneIndex(d)
         IN IF i > 0 THEN [ts |-> SliceFrom(d.ts, i), price |-> d.price]
                     ELSE d
    ELSE d

DropOld(d) ==
  IF Len(d.ts) > 0
    THEN LET i == PruneIndex(d)
         IN IF i > 0 THEN [ts |-> SliceFrom(d.ts, i), price |-> SliceFrom(d.price, i)]
                     ELSE d
    ELSE d

Insert(d, entries) ==
  LET ts_new == Unzip(entries, 1)
      price_new == Unzip(entries, 2)
  IN IF FastPath(d, ts_new) THEN Extend(d, ts_new, price_new)
                            ELSE Merge(d, ts_new, price_new)

\* variant: the emptiness test comes after d = self.data[symbol]
add_prices_lookup_first(dt, symbol, entries) ==
  IF entries = <<>> THEN (symbol :> Series(dt, symbol)) @@ dt
  ELSE (symbol :> DropOld(Insert(Series(dt, symbol), entries))) @@ dt

add_prices(dt, symbol, entries) ==
  IF entries = <<>> THEN dt
  ELSE (symbol :> DropOld(Insert(Series(dt, symbol), entries))) @@ dt

add_price(dt, symbol, price, timestamp) ==
  add_prices(dt, symbol, <<<<timestamp, price>>>>)

\* variant: the loop returns after the first asset of the mapping
BulkLoopFirstOnly(dt, items, k) ==
  IF k > Len(items) THEN dt
  ELSE add_prices(dt, items[k][1], items[k][2])

RECURSIVE BulkLoop(_, _, _)
BulkLoop(dt, items, k) ==
  IF k > Len(items) THEN dt
  ELSE BulkLoop(add_prices(dt, items[k][1], items[k][2]), items, k + 1)

add_bulk(dt, items) == BulkLoop(dt, items, 1)

(* ------------------------------ queries -------------------------------- *)
\* a returned value: None, or a list of (timestamp, price) pairs; a single
\* returned pair is val[1]
None == [none |-> TRUE, val |-> <<>>]
List(v) == [none |-> FALSE, val |-> v]
Pair(t, p) == [none |-> FALSE, val |-> <<<<t, p>>>>]

\* variant: the cutoff is taken after the last timestamp (+ for -)
StartIdxPlusDays(ts, days) ==
  IF days # NoDays /\ days[1] # 0
    THEN bisect_left(ts, Back(ts) + days[1] * SecondsPerDay)
    ELSE 0

StartIdx(ts, days) ==
  IF days # NoDays /\ days[1] # 0
    THEN bisect_left(ts, Back(ts) - days[1] * SecondsPerDay)
    ELSE 0

\* variant: the loop emits every entry, whatever the target
RECURSIVE ResampleEmitsAll(_, _, _, _, _, _)
ResampleEmitsAll(ts, prices, i, target_next, resolution, result) ==
  IF i >= Len(ts) THEN result
  ELSE ResampleEmitsAll(ts, prices, i + 1, target_next, resolution,
                        Append(result, <<ts[i + 1], prices[i + 1]>>))

\* variant: an entry exactly at the target is skipped (t > target_next)
RECURSIVE ResampleStrict(_, _, _, _, _, _)
ResampleStrict(ts, prices, i, target_next, resolution, result) ==
  IF i >= Len(ts) THEN result
  ELSE LET t == ts[i + 1]
       IN IF t > target_next
            THEN ResampleStrict(ts, prices, i + 1, t + resolution, resolution,
                                Append(result, <<t, prices[i + 1]>>))
            ELSE ResampleStrict(ts, prices, i + 1, target_next, resolution, result)

\* the loop "for i in range(start_idx + 1, n)"; i is the 0-based index
RECURSIVE Resample(_, _, _, _, _, _)
Resample(ts, prices, i, target_next, resolution, result) ==
  IF i >= Len(ts) THEN result
  ELSE LET t == ts[i + 1]
       IN IF t >= target_next
            THEN Resample(ts, prices, i + 1, t + resolution, resolution,
                          Append(result, <<t, prices[i + 1]>>))
            ELSE Resample(ts, prices, i + 1, target_next, resolution, result)

get_prices(dt, asset, days, resolution) ==
  IF ~Known(dt, asset) THEN List(<<>>)
  ELSE LET ts == dt[asset].ts
           prices == dt[asset].price
       IN IF ts = <<>> THEN List(<<>>)
          ELSE LET start_idx == StartIdx(ts, days)
               IN IF start_idx >= Len(ts) THEN List(<<>>)
                  ELSE LET last_t == ts[start_idx + 1]
                       IN List(Resample(ts, prices, start_idx + 1, last_t + resolution,
                                        resolution, <<<<last_t, prices[start_idx + 1]>>>>))

\* variant: an empty list instead of None when there is no data
get_last_price_empty_list(dt, asset) ==
  IF ~Known(dt, asset) \/ dt[asset].ts = <<>> THEN List(<<>>)
  ELSE Pair(Back(dt[asset].ts), Back(dt[asset].price))

\* variant: the first entry of the series is returned (index 0 for -1)
get_last_price_first(dt, asset) ==
  IF ~Known(dt, asset) \/ dt[asset].ts = <<>> THEN None
  ELSE Pair(dt[asset].ts[1], dt[asset].price[1])

get_last_price(dt, asset) ==
  IF ~Known(dt, asset) \/ dt[asset].ts = <<>> THEN None
  ELSE Pair(Back(dt[asset].ts), Back(dt[asset].price))

get_closest_price(dt, asset, time) ==
  IF ~Known(dt, asset) \/ dt[asset].ts = <<>> THEN None
  ELSE LET ts == dt[asset].ts
           prices == dt[asset].price
           pos == bisect_left(ts, time)
       IN IF pos = 0 THEN Pair(ts[1], prices[1])
          ELSE IF pos = Len(ts) THEN Pair(Back(ts), Back(prices))
          ELSE LET before == pos - 1
                   after == pos
               IN IF time - ts[before + 1] <= ts[after + 1] - time
                    THEN Pair(ts[before + 1], prices[before + 1])
                    ELSE Pair(ts[after + 1], prices[after + 1])

(* --------------------------- the state machine ------------------------- *)
\* last: the call that produced the current state, with its arguments and
\* its return value; pre: self.data as it was when that call started
Call(op, asset, entries, items, days, resolution, time, ret) ==
  [op |-> op, asset |-> asset, entries |-> entries, items |-> items,
   days |-> days, resolution |-> resolution, time |-> time, ret |-> ret]

\* no call is in progress: the caller holds no result
Idle == Call("idle", "", <<>>, <<>>, NoDays, 0, 0, None)

TotalLen(dt) ==
  LET RECURSIVE Sum(_)
      Sum(S) == IF S = {} THEN 0
                ELSE LET a == CHOOSE x \in S : TRUE
                     IN Len(dt[a].ts) + Sum(S \ {a})
  IN Sum(DOMAIN dt)

\* PriceStore(window_days)
Construct(days) ==
  /\ data = [a \in {} |-> EmptySeries]
  /\ window_days = days
  /\ last = Idle
  /\ pre = data

\* PriceStore()
Init == Construct(DefaultWindowDays)

\* PriceStore(window_days=n)
InitConfigured == \E n \in WindowDays : Construct(n)

Write(dt, call) ==
  /\ TotalLen(dt) <= MaxLen
  /\ data' = dt
  /\ pre' = data
  /\ last' = call
  /\ UNCHANGED window_days

\* variant: the lookup is self.data[asset], which makes the defaultdict
\* create an empty series for a missing key
data_getitem(dt, asset) == (asset :> Series(dt, asset)) @@ dt

\* the store after the queries' lookup "d = self.data.get(asset)": dict.get
\* does not call the default factory, so no key is added
data_get(dt, asset) == dt

Read(call) ==
  /\ data' = data_get(data, call.asset)
  /\ pre' = data
  /\ last' = call
  /\ UNCHANGED window_days

AddPriceTo(a) ==
  /\ last = Idle
  /\ \E t \in Timestamps, p \in Prices :
      Write(add_price(data, a, p, t),
            Call("add_price", a, <<<<t, p>>>>, <<>>, NoDays, 0, 0, None))

AddPrice == \E a \in Assets : AddPriceTo(a)

AddPricesTo(a, B) ==
  /\ last = Idle
  /\ \E b \in B :
      Write(add_prices(data, a, b),
            Call("add_prices", a, b, <<>>, NoDays, 0, 0, None))

AddPrices(B) == \E a \in Assets : AddPricesTo(a, B)

AddBulk(M) ==
  /\ last = Idle
  /\ \E m \in M :
      Write(add_bulk(data, m),
            Call("add_bulk", "", <<>>, m, NoDays, 0, 0, None))

GetPrices ==
  /\ last = Idle
  /\ \E a \in Assets, dy \in DaysArgs, r \in Resolutions :
      Read(Call("get_prices", a, <<>>, <<>>, dy, r, 0, get_prices(data, a, dy, r)))

GetLastPrice ==
  /\ last = Idle
  /\ \E a \in Assets :
      Read(Call("get_last_price", a, <<>>, <<>>, NoDays, 0, 0, get_last_price(data, a)))

GetClosestPrice ==
  /\ last = Idle
  /\ \E a \in Assets, tm \in Times :
      Read(Call("get_closest_price", a, <<>>, <<>>, NoDays, 0, tm,
                get_closest_price(data, a, tm)))

\* the call returns to its caller, which is then free to make the next call
Return ==
  /\ last # Idle
  /\ last' = Idle
  /\ pre' = data
  /\ UNCHANGED <<data, window_days>>

Queries == GetPrices \/ GetLastPrice \/ GetClosestPrice

\* callers keep the documented contract: every batch is sorted ascending
Next == AddPrice \/ AddPrices(SortedBatches) \/ AddBulk(SortedMappings) \/ Queries \/ Return

Spec == Init /\ [][Next]_vars

\* one feed writes batches in any order to its asset; the other asset is
\* never written
NextAnyOrder == AddPricesTo(FeedAsset, Batches) \/ Queries \/ Return

SpecAnyOrder == Init /\ [][NextAnyOrder]_vars

\* a tick feed: the store only receives single ticks, every asset keeps
\* receiving them, and every call returns
NextTicks == AddPrice \/ Return

TickSpec ==
  /\ InitConfigured /\ [][NextTicks]_vars
  /\ WF_vars(Return)
  /\ \A a \in Assets : SF_vars(AddPriceTo(a))

(* ------------------------------ properties ----------------------------- *)
IsWrite == last.op \in {"add_price", "add_prices", "add_bulk"}
IsInsertOne == last.op \in {"add_price", "add_prices"} /\ Len(last.entries) = 1
HasData(dt, a) == Known(dt, a) /\ dt[a].ts # <<>>

StrictlyIncreasing(ts) == \A i, j \in 1..Len(ts) : i < j => ts[i] < ts[j]

\* C1: after any sequence of inserts whose batches are each sorted ascending,
\* every stored series is strictly increasing in timestamp (sorted, and no
\* two entries share a timestamp).
SeriesStrictlyIncreasing ==
  \A a \in DOMAIN data : StrictlyIncreasing(data[a].ts)

\* C2: whatever the prior series, a batch passed to add_prices is resolved by
\* the insert policy: walking it in order, an entry older than the last
\* accepted timestamp is dropped, an equal one overwrites the last price, a
\* newer one is appended.
BatchResolvedByPolicy ==
  (last.op = "add_prices" /\ last.entries # <<>>) =>
    data[last.asset] =
      DropOld(Merge(Series(pre, last.asset),
                    Unzip(last.entries, 1), Unzip(last.entries, 2)))

\* C3: inserting one entry whose timestamp equals the last timestamp of a
\* non-empty series changes only the price of the last entry, and
\* get_last_price then returns (that timestamp, the new price).
OverwriteChangesOnlyLastPrice ==
  (IsInsertOne /\ HasData(pre, last.asset)
     /\ last.entries[1][1] = Back(pre[last.asset].ts)) =>
    LET a == last.asset
        t == last.entries[1][1]
        p == last.entries[1][2]
    IN /\ data[a].ts = pre[a].ts
       /\ Len(data[a].price) = Len(pre[a].price)
       /\ \A i \in 1..(Len(pre[a].price) - 1) : data[a].price[i] = pre[a].price[i]
       /\ Back(data[a].price) = p
       /\ \A b \in DOMAIN pre : b # a => data[b] = pre[b]
       /\ DOMAIN data = DOMAIN pre
       /\ get_last_price(data, a) = Pair(t, p)

OverwriteHappened ==
  /\ last.op = "add_price"
  /\ HasData(pre, last.asset)
  /\ Len(pre[last.asset].ts) >= 2
  /\ last.entries[1][1] = Back(pre[last.asset].ts)
  /\ last.entries[1][2] # Back(pre[last.asset].price)

\* C4: inserting one entry whose timestamp is strictly less than the last
\* timestamp of the series leaves the series (and the whole store) unchanged,
\* also when that timestamp is already stored at a non-last position.
OlderEntryLeavesSeriesUnchanged ==
  (IsInsertOne /\ HasData(pre, last.asset)
     /\ last.entries[1][1] < Back(pre[last.asset].ts)) =>
    data = pre

OlderStoredTimestampInserted ==
  /\ last.op = "add_price"
  /\ HasData(pre, last.asset)
  /\ last.entries[1][1] < Back(pre[last.asset].ts)
  /\ \E i \in 1..(Len(pre[last.asset].ts) - 1) :
       /\ pre[last.asset].ts[i] = last.entries[1][1]
       /\ pre[last.asset].price[i] # last.entries[1][2]

Abs(x) == IF x < 0 THEN -x ELSE x

ClosestIsNearestEntry ==
  (last.op = "get_closest_price" /\ HasData(data, last.asset)) =>
    LET ts == data[last.asset].ts
        prices == data[last.asset].price
        time == last.time
        r == last.ret.val
    IN /\ ~last.ret.none
       /\ Len(r) = 1
       /\ \E i \in 1..Len(ts) : r[1] = <<ts[i], prices[i]>>
       /\ \A j \in 1..Len(ts) : Abs(r[1][1] - time) <= Abs(ts[j] - time)
       /\ \A j \in 1..Len(ts) :
            Abs(ts[j] - time) = Abs(r[1][1] - time) => r[1][1] <= ts[j]
       /\ time <= ts[1] => r[1] = <<ts[1], prices[1]>>
       /\ time >= Back(ts) => r[1] = <<Back(ts), Back(prices)>>

\* an entry older than the configured retention window, counted from the
\* newest timestamp of the series
Stale(a) ==
  /\ HasData(data, a)
  /\ \E i \in 1..Len(data[a].ts) :
       data[a].ts[i] < Back(data[a].ts) - window_days * SecondsPerDay

\* C7: an entry older than the retention window (window_days) relative to the
\* newest timestamp of its series is eventually evicted by some add_prices
\* call.
StaleEntriesEvicted == \A a \in Assets : Stale(a) ~> ~Stale(a)

DaysGivenStartsAtCutoff ==
  (last.op = "get_prices" /\ last.days # NoDays /\ HasData(data, last.asset)) =>
    LET ts == data[last.asset].ts
        prices == data[last.asset].price
        v == last.ret.val
        cutoff == Back(ts) - last.days[1] * SecondsPerDay
        first == CHOOSE k \in 1..Len(ts) :
                   /\ ts[k] >= cutoff
                   /\ \A j \in 1..(k - 1) : ts[j] < cutoff
    IN /\ v # <<>>
       /\ v[1] = <<ts[first], prices[first]>>
       /\ \A i \in 1..Len(v) : v[i][1] >= cutoff

\* C10: reading an asset that was never written, or that has no data, gives
\* the no-data result: [] from get_prices, None from get_last_price and
\* get_closest_price.
NoDataResult ==
  ~HasData(data, last.asset) =>
    /\ last.op = "get_prices" => last.ret = List(<<>>)
    /\ last.op \in {"get_last_price", "get_closest_price"} => last.ret = None

UnknownAssetRead ==
  /\ last.op = "get_closest_price"
  /\ ~Known(data, last.asset)
  /\ \E b \in DOMAIN data : data[b].ts # <<>>

\* C11: an empty batch is a silent no-op: add_prices(asset, []) and add_bulk
\* with an empty mapping leave the store unchanged, and add_bulk neither
\* modifies nor creates the series of an asset mapped to an empty list.
EmptyBatchIsNoOp ==
  /\ (last.op = "add_prices" /\ last.entries = <<>>) => data = pre
  /\ last.op = "add_bulk" =>
       /\ \A k \in 1..Len(last.items) :
            last.items[k][2] = <<>> =>
              /\ Known(data, last.items[k][1]) = Known(pre, last.items[k][1])
              /\ Series(data, last.items[k][1]) = Series(pre, last.items[k][1])
       /\ (\A k \in 1..Len(last.items) : last.items[k][2] = <<>>) => data = pre
  /\ IsWrite => last.ret = None

EmptyListForUnknownAsset ==
  /\ last.op = "add_bulk"
  /\ Len(last.items) = 2
  /\ last.items[1][2] = <<>>
  /\ ~Known(pre, last.items[1][1])
  /\ last.items[2][2] # <<>>
  /\ HasData(data, last.items[2][1])

\* the add_prices calls of a mapping, one after the other in iteration order
RECURSIVE AddPricesInOrder(_, _)
AddPricesInOrder(dt, items) ==
  IF items = <<>> THEN dt
  ELSE AddPricesInOrder(add_prices(dt, Head(items)[1], Head(items)[2]), Tail(items))

SameSeries(d1, d2, a) ==
  /\ Known(d1, a) = Known(d2, a)
  /\ Series(d1, a) = Series(d2, a)

\* C12: writes are per-asset independent: add_bulk(data) leaves the store as
\* the add_prices calls of its items made in iteration order do, each named
\* asset ends as add_prices on it alone would leave it, and every write
\* leaves the series of every asset it does not name unchanged.
WritesArePerAsset ==
  /\ last.op = "add_bulk" =>
       LET keys == {last.items[k][1] : k \in 1..Len(last.items)}
       IN /\ data = AddPricesInOrder(pre, last.items)
          /\ \A k \in 1..Len(last.items) :
               SameSeries(data, add_prices(pre, last.items[k][1], last.items[k][2]),
                          last.items[k][1])
          /\ \A b \in Assets \ keys : SameSeries(data, pre, b)
  /\ last.op \in {"add_price", "add_prices"} =>
       \A b \in Assets \ {last.asset} : SameSeries(data, pre, b)

BulkChangedTwoAssets ==
  /\ last.op = "add_bulk"
  /\ Len(last.items) = 2
  /\ HasData(pre, last.items[1][1])
  /\ Series(data, last.items[1][1]) # Series(pre, last.items[1][1])
  /\ Series(data, last.items[2][1]) # Series(pre, last.items[2][1])

\* the first index after i whose timestamp is at least ts[i] + resolution,
\* 0 when there is none (indices are 1-based here)
NextPick(ts, i, resolution) ==
  LET later == {j \in (i + 1)..Len(ts) : ts[j] >= ts[i] + resolution}
  IN IF later = {} THEN 0
     ELSE CHOOSE j \in later : \A k \in later : j <= k

RECURSIVE GreedyPicks(_, _, _)
GreedyPicks(ts, i, resolution) ==
  LET n == NextPick(ts, i, resolution)
  IN IF n = 0 THEN <<i>> ELSE <<i>> \o GreedyPicks(ts, n, resolution)

\* C13: get_prices is the greedy minimum-spacing selection: it returns the
\* stored entries at the start index and then, each time, at the first index
\* whose timestamp is >= the previously emitted timestamp + resolution; every
\* skipped entry lies less than `resolution` after the emitted entry before it.
ResampleIsGreedy ==
  (last.op = "get_prices" /\ HasData(data, last.asset)) =>
    LET ts == data[last.asset].ts
        prices == data[last.asset].price
        v == last.ret.val
        picks == GreedyPicks(ts, StartIdx(ts, last.days) + 1, last.resolution)
    IN /\ Len(v) = Len(picks)
       /\ \A k \in 1..Len(picks) : v[k] = <<ts[picks[k]], prices[picks[k]]>>
       /\ \A k \in 1..(Len(picks) - 1) : picks[k] < picks[k + 1]
       /\ \A k \in 1..Len(picks) :
            \A j \in (picks[k] + 1)..Len(ts) :
              (k = Len(picks) \/ j < picks[k + 1]) =>
                /\ ts[j] >= ts[picks[k]]
                /\ ts[j] - ts[picks[k]] < last.resolution

MiddleEntrySkipped ==
  /\ last.op = "get_prices"
  /\ last.days = NoDays
  /\ HasData(data, last.asset)
  /\ Len(data[last.asset].ts) = 3
  /\ Len(last.ret.val) = 2
  /\ last.ret.val[2][1] = data[last.asset].ts[3]
  /\ data[last.asset].ts[2] > data[last.asset].ts[1]

LastTs(dt, a) == get_last_price(dt, a).val[1][1]

LastIsGreatest(dt, a) ==
  LET r == get_last_price(dt, a)
  IN /\ r.none = FALSE
     /\ r.val[1] = <<Back(dt[a].ts), Back(dt[a].price)>>
     /\ \A i \in 1..Len(dt[a].ts) : dt[a].ts[i] <= r.val[1][1]

IsQuery == last.op \in {"get_prices", "get_last_price", "get_closest_price"}

\* the assets a write call hands a non-empty batch to
WrittenAssets ==
  IF last.op \in {"add_price", "add_prices"}
    THEN IF last.entries # <<>> THEN {last.asset} ELSE {}
  ELSE IF last.op = "add_bulk"
    THEN {last.items[k][1] : k \in {j \in 1..Len(last.items) : last.items[j][2] # <<>>}}
  ELSE {}

\* C15: get_prices, get_last_price and get_closest_price never change the
\* store: after any of them the store has the same assets with the same
\* series as before, and an asset unknown before a call has a series after it
\* only if the call was a write that gave that asset a non-empty batch.
QueriesLeaveStoreUnchanged ==
  /\ IsQuery =>
       /\ DOMAIN data = DOMAIN pre
       /\ \A a \in Assets : SameSeries(data, pre, a)
       /\ data = pre
  /\ \A a \in Assets :
       (Known(data, a) /\ ~Known(pre, a)) => a \in WrittenAssets

QueryOnUnknownAssetBesideKnown ==
  /\ IsQuery
  /\ ~Known(pre, last.asset)
  /\ ~Known(data, last.asset)
  /\ \E b \in Assets : HasData(data, b)

\* C16: the fast path is only an optimisation of the merge path: whenever
\* add_price / add_prices takes the fast path (series empty, or first batch
\* timestamp strictly greater than the last stored one), the stored series is
\* the one the entry-by-entry merge walk would have produced.
FastPathEqualsMergeWalk ==
  (/\ last.op \in {"add_price", "add_prices"}
   /\ last.entries # <<>>
   /\ FastPath(Series(pre, last.asset), Unzip(last.entries, 1))) =>
    data[last.asset] =
      DropOld(Merge(Series(pre, last.asset),
                    Unzip(last.entries, 1), Unzip(last.entries, 2)))

\* C17: for an asset with a non-empty series, get_prices with days not given
\* or non-negative returns a non-empty sequence whose first entry is the
\* stored entry at the start index, and the start index is below the length
\* of the series (the out-of-range empty result does not occur).
GetPricesNonEmptyForKnownData ==
  (/\ last.op = "get_prices"
   /\ HasData(data, last.asset)
   /\ (last.days = NoDays \/ last.days[1] >= 0)) =>
    LET ts == data[last.asset].ts
        s == StartIdx(ts, last.days)
    IN /\ s >= 0
       /\ s < Len(ts)
       /\ last.ret.none = FALSE
       /\ last.ret.val # <<>>
       /\ last.ret.val[1] = <<ts[s + 1], data[last.asset].price[s + 1]>>

WindowStartsInsideSeries ==
  /\ last.op = "get_prices"
  /\ HasData(data, last.asset)
  /\ last.days # NoDays
  /\ last.days[1] > 0
  /\ StartIdx(data[last.asset].ts, last.days) > 0
  /\ last.ret.val # <<>>

\* C18: in every reachable state, for every asset the timestamp list and the
\* price list have the same length (index i of one pairs with index i of the
\* other), after the fast path, the merge path and the pruning slice alike.
ParallelListsSameLength ==
  \A a \in DOMAIN data :
    /\ Len(data[a].ts) = Len(data[a].price)
    /\ DOMAIN data[a].ts = DOMAIN data[a].price

PruningSlicedBothLists ==
  /\ last.op = "add_prices"
  /\ last.entries # <<>>
  /\ PruneIndex(Insert(Series(pre, last.asset), last.entries)) > 0
  /\ Len(data[last.asset].ts) < Len(Insert(Series(pre, last.asset), last.entries).ts)
  /\ Len(data[last.asset].ts) = Len(data[last.asset].price)

====
